---- MODULE Spec2Model ----
(***************************************************************************)
(* Cortex Hybrid Architecture: the tiered reference / body lookup and      *)
(* caching protocol of CortexManager (orchestrator), L0Bootstrap (the      *)
(* catalog of lightweight references with its access tracker) and          *)
(* L1Repository (the backing-store client).                                *)
(*                                                                         *)
(* JavaScript strings are sequences of one-character strings, so that the  *)
(* normalisation of names, substring search and truncation are computed.   *)
(* Every async function is cut at its awaits: the part up to an await is   *)
(* one action, a continuation is queued in `microtasks` (FIFO, as the job  *)
(* queue runs them) and a setTimeout callback runs only when that queue is *)
(* empty.  The clock `now` is logical, in hours: it advances by one with   *)
(* every operation started.                                                *)
(***************************************************************************)
EXTENDS Integers, Sequences, FiniteSets, TLC

(* ------------------------------ bounds -------------------------------- *)

\* Operations (initialize, getEntity, storeEntity, createLightweightReference)
\* started.
MaxCalls == 4

\* config.cacheSize handed to the CortexManager constructor.
ConfigCacheSize == 2

\* The callers that may have an operation in progress at the same time.
Procs == {1, 2}

(* --------------------------- JavaScript values ------------------------- *)

JsString(chars) == [t |-> "string", s |-> chars, a |-> << >>]

JsNumber(digits) == [t |-> "number", s |-> digits, a |-> << >>]

JsArray(items) == [t |-> "array", s |-> << >>, a |-> items]

JsUndefined == [t |-> "undefined", s |-> << >>, a |-> << >>]

\* !v is false: the empty string and undefined are the falsy values in use.
Truthy(v) ==
    CASE v.t = "undefined" -> FALSE
      [] v.t = "string" -> v.s # << >>
      [] OTHER -> TRUE

StartsWithAt(s, sub, i) ==
    /\ i + Len(sub) - 1 <= Len(s)
    /\ \A k \in 1..Len(sub) : s[i + k - 1] = sub[k]

\* String.prototype.includes
Includes(s, sub) == \E i \in 1..(Len(s) + 1) : StartsWithAt(s, sub, i)

\* String.prototype.substring(0, n)
Substring0(s, n) == SubSeq(s, 1, IF Len(s) < n THEN Len(s) ELSE n)

(* ------------------------------ constants ------------------------------ *)

DefaultCacheSize == 100

SummaryLimit == 100

KiloByte == 1024

SampleName ==
    <<"C","o","r","t","e","x","_","A","c","c","e","s","s","_","P","r","o","t","o","c","o","l","_","v","3","_","0">>

SampleFileReference ==
    <<"c","o","r","t","e","x","/","e","n","t","i","t","i","e","s","/">>
    \o <<"c","o","r","t","e","x","_","a","c","c","e","s","s","_","p","r","o","t","o","c","o","l","_","v","3","_","0">>
    \o <<".","j","s","o","n">>

SampleSummary ==
    <<"R","e","v","o","l","u","t","i","o","n","a","r","y"," ","A","G","I"," ","M","e","m","o","r","y"," ","B","o","o","t","s","t","r","a","p"," ","P","r","o","t","o","c","o","l">>

BasePath == <<"c","o","r","t","e","x","/","e","n","t","i","t","i","e","s">>

DotJson == <<".","j","s","o","n">>

BootstrapType ==
    <<"S","y","s","t","e","m","_","B","o","o","t","s","t","r","a","p","_","P","r","o","t","o","c","o","l">>

LoadedType == <<"l","o","a","d","e","d","_","e","n","t","i","t","y">>

FactType == <<"F","a","c","t">>

\* the messages of the errors thrown, without the name or the cause they quote
CortexNotInitialized == "Cortex not initialized. Call initialize() first."

L0NotInitialized == "L0 Bootstrap not initialized. Call initialize() first."

EntityNotFound == "Entity not found in L0 Bootstrap"

L1NotConnected == "L1 Repository not connected. Call connect() first."

L1NotConnectedStore == "L1 Repository not connected."

FailedToLoad == "Failed to load entity from L1"

FailedToStore == "Failed to store entity in L1"

(* ------------------------- L1Repository: helpers ----------------------- *)

UpperCase == <<"A","B","C","D","E","F","G","H","I","J","K","L","M","N","O","P","Q","R","S","T","U","V","W","X","Y","Z">>

LowerCase == <<"a","b","c","d","e","f","g","h","i","j","k","l","m","n","o","p","q","r","s","t","u","v","w","x","y","z">>

Digits == {"0","1","2","3","4","5","6","7","8","9"}

\* String.prototype.toLowerCase, one character
LowerChar(c) ==
    IF \E i \in 1..Len(UpperCase) : UpperCase[i] = c
    THEN LowerCase[CHOOSE i \in 1..Len(UpperCase) : UpperCase[i] = c]
    ELSE c

ToLowerCase(s) == [i \in 1..Len(s) |-> LowerChar(s[i])]

\* the character class [a-z0-9_]
IsSafeChar(c) ==
    \/ \E i \in 1..Len(LowerCase) : LowerCase[i] = c
    \/ c \in Digits
    \/ c = "_"

\* .replace(/[^a-z0-9_]/g, '_')
ReplaceUnsafe(s) == [i \in 1..Len(s) |-> IF IsSafeChar(s[i]) THEN s[i] ELSE "_"]

\* .replace(/_+/g, '_')
RECURSIVE CollapseUnderscores(_)
CollapseUnderscores(s) ==
    IF Len(s) < 2 THEN s
    ELSE IF s[1] = "_" /\ s[2] = "_" THEN CollapseUnderscores(Tail(s))
    ELSE <<s[1]>> \o CollapseUnderscores(Tail(s))

\* a faulty strip: the underscore at the end is kept
StripUnderscoresHeadOnly(s) == IF Len(s) > 0 /\ s[1] = "_" THEN Tail(s) ELSE s

\* .replace(/^_|_$/g, ''): one underscore at the start, then one at the end of
\* what is left of the string after it
StripUnderscores(s) ==
    LET noHead == IF Len(s) > 0 /\ s[1] = "_" THEN Tail(s) ELSE s
    IN  IF Len(noHead) > 0 /\ noHead[Len(noHead)] = "_"
        THEN SubSeq(noHead, 1, Len(noHead) - 1)
        ELSE noHead

SanitizeName(entityName) ==
    StripUnderscores(CollapseUnderscores(ReplaceUnsafe(ToLowerCase(entityName))))

\* `${this.config.basePath}/${sanitizedName}.json`
generateFileReference(entityName) ==
    BasePath \o <<"/">> \o SanitizeName(entityName) \o DotJson

\* fileReference.split('/').pop()
RECURSIVE LastSegment(_)
LastSegment(s) ==
    IF \E i \in 1..Len(s) : s[i] = "/"
    THEN LastSegment(SubSeq(s, (CHOOSE i \in 1..Len(s) : s[i] = "/" /\ \A j \in 1..(i - 1) : s[j] # "/") + 1, Len(s)))
    ELSE s

\* .replace('.json', ''): the first occurrence only
RemoveFirst(s, sub) ==
    IF Includes(s, sub)
    THEN LET i == CHOOSE k \in 1..Len(s) :
                     /\ StartsWithAt(s, sub, k)
                     /\ \A j \in 1..(k - 1) : ~StartsWithAt(s, sub, j)
         IN  SubSeq(s, 1, i - 1) \o SubSeq(s, i + Len(sub), Len(s))
    ELSE s

\* new Date().toISOString() at clock value t (hours): YYYY-MM-DDTHH:mm:ss.sssZ
IsoString(t) ==
    <<"2","0","2","5","-","0","1","-","0","1","T">>
    \o <<ToString(t \div 10), ToString(t % 10)>>
    \o <<":","0","0",":","0","0",".","0","0","0","Z">>

NoMetadata == [t |-> "undefined", fileReference |-> << >>, loadedAt |-> 0, source |-> << >>]

\* The entity that loadEntityFromRepository resolves with: the repository is
\* simulated, every file reference yields a body made from the reference.
LoadedEntity(fileReference, t) ==
    [name |-> JsString(RemoveFirst(LastSegment(fileReference), DotJson)),
     entityType |-> JsString(LoadedType),
     observations |-> JsArray(<<
        JsString(<<"E","n","t","i","t","y"," ","l","o","a","d","e","d"," ","f","r","o","m"," ","L","1"," ","R","e","p","o","s","i","t","o","r","y",":"," ">> \o fileReference),
        JsString(<<"T","i","m","e","s","t","a","m","p",":"," ">> \o IsoString(t)),
        JsString(<<"E","v","i","d","e","n","c","e"," ","Q","u","a","l","i","t","y",":"," ","T","2">>) >>),
     metadata |-> [t |-> "object", fileReference |-> fileReference, loadedAt |-> t,
                   source |-> <<"L","1","R","e","p","o","s","i","t","o","r","y">>]]

\* a faulty validation: every entity passes
validateEntitySchemaLax(entity) == "ok"

\* validateEntitySchema: "ok", or the message of the Error it throws
validateEntitySchema(entity) ==
    IF ~Truthy(entity.name) \/ entity.name.t # "string"
    THEN "Entity must have a valid name"
    ELSE IF ~Truthy(entity.entityType) \/ entity.entityType.t # "string"
    THEN "Entity must have a valid entityType"
    ELSE IF ~Truthy(entity.observations) \/ entity.observations.t # "array"
    THEN "Entity must have observations array"
    ELSE "ok"

(* -------------------------- L0Bootstrap: helpers ------------------------ *)

Ellipsis == <<".",".",".">>

\* generateSummary: the summary, or "TypeError" when the first observation is
\* no string (it has no substring method)
generateSummary(fullEntity) ==
    IF fullEntity.observations.t = "array" /\ Len(fullEntity.observations.a) > 0
    THEN LET firstObs == fullEntity.observations.a[1]
         IN  IF firstObs.t # "string"
             THEN [threw |-> TRUE, value |-> << >>]
             ELSE [threw |-> FALSE,
                   value |-> Substring0(firstObs.s, SummaryLimit)
                             \o (IF Len(firstObs.s) > SummaryLimit THEN Ellipsis ELSE << >>)]
    ELSE [threw |-> FALSE, value |-> fullEntity.entityType.s \o <<" ","e","n","t","i","t","y">>]

HighObservations == 10

MediumObservations == 5

\* faulty thresholds: 10 observations count as high, 5 as medium
calculatePriorityInclusive(fullEntity) ==
    IF fullEntity.entityType.t = "string" /\ fullEntity.entityType.s = BootstrapType
    THEN "critical"
    ELSE IF fullEntity.observations.t = "array" /\ Len(fullEntity.observations.a) >= HighObservations
    THEN "high"
    ELSE IF fullEntity.observations.t = "array" /\ Len(fullEntity.observations.a) >= MediumObservations
    THEN "medium"
    ELSE "low"

calculatePriority(fullEntity) ==
    IF fullEntity.entityType.t = "string" /\ fullEntity.entityType.s = BootstrapType
    THEN "critical"
    ELSE IF fullEntity.observations.t = "array" /\ Len(fullEntity.observations.a) > HighObservations
    THEN "high"
    ELSE IF fullEntity.observations.t = "array" /\ Len(fullEntity.observations.a) > MediumObservations
    THEN "medium"
    ELSE "low"

RECURSIVE SumSeq(_)
SumSeq(ns) == IF ns = << >> THEN 0 ELSE Head(ns) + SumSeq(Tail(ns))

\* The length of JSON.stringify(v) for a string, a number or an array of them
\* (the characters in use need no escape)
RECURSIVE JsonLength(_)
JsonLength(v) ==
    CASE v.t = "string" -> Len(v.s) + 2
      [] v.t = "number" -> Len(v.s)
      [] v.t = "array" ->
            2 + SumSeq([i \in 1..Len(v.a) |-> JsonLength(v.a[i])])
              + (IF Len(v.a) > 0 THEN Len(v.a) - 1 ELSE 0)
      [] OTHER -> 4

\* "key":value of an object, nothing for an undefined value
JsonMember(key, v) == IF v.t = "undefined" THEN 0 ELSE Len(key) + 3 + JsonLength(v)

JsonObjectLength(members) ==
    LET present == SelectSeq(members, LAMBDA n : n > 0)
    IN  2 + SumSeq(present) + (IF Len(present) > 0 THEN Len(present) - 1 ELSE 0)

JsonMetadataLength(metadata) ==
    IF metadata.t = "undefined" THEN 0
    ELSE Len(<<"m","e","t","a","d","a","t","a">>) + 3
         + JsonObjectLength(<<
              JsonMember(<<"f","i","l","e","R","e","f","e","r","e","n","c","e">>, JsString(metadata.fileReference)),
              JsonMember(<<"l","o","a","d","e","d","A","t">>, JsString(IsoString(metadata.loadedAt))),
              JsonMember(<<"s","o","u","r","c","e">>, JsString(metadata.source)) >>)

\* JSON.stringify(fullEntity).length
JsonEntityLength(fullEntity) ==
    JsonObjectLength(<<
        JsonMember(<<"n","a","m","e">>, fullEntity.name),
        JsonMember(<<"e","n","t","i","t","y","T","y","p","e">>, fullEntity.entityType),
        JsonMember(<<"o","b","s","e","r","v","a","t","i","o","n","s">>, fullEntity.observations),
        JsonMetadataLength(fullEntity.metadata) >>)

\* calculateSize: `${n}B`, or `${Math.round(n / 1024 * 10) / 10}KB` held in tenths
calculateSize(fullEntity) ==
    LET sizeBytes == JsonEntityLength(fullEntity)
    IN  IF sizeBytes > KiloByte
        THEN [tenths |-> (sizeBytes * 20 + KiloByte) \div (2 * KiloByte), unit |-> "KB"]
        ELSE [tenths |-> sizeBytes * 10, unit |-> "B"]

TierT1 == <<"T","1">>

TierT2 == <<"T","2">>

TierT3 == <<"T","3">>

\* extractEvidenceQuality from observation i on: the tier of the first
\* observation that holds a marker; "TypeError" at an observation that is no
\* string and no array (it has no includes method)
RECURSIVE ScanEvidenceQuality(_, _)
ScanEvidenceQuality(obs, i) ==
    IF i > Len(obs) THEN "T3"
    ELSE IF obs[i].t # "string" THEN "TypeError"
    ELSE IF Includes(obs[i].s, TierT1) THEN "T1"
    ELSE IF Includes(obs[i].s, TierT2) THEN "T2"
    ELSE IF Includes(obs[i].s, TierT3) THEN "T3"
    ELSE ScanEvidenceQuality(obs, i + 1)

extractEvidenceQuality(fullEntity) ==
    IF fullEntity.observations.t = "array"
    THEN ScanEvidenceQuality(fullEntity.observations.a, 1)
    ELSE "T3"

NoTime == -1

VeryHighHours == 1

HighHours == 24

MediumHours == 168

\* calculateAccessFrequency of the record before this access
calculateAccessFrequency(accessData, t) ==
    IF accessData.lastAccess = NoTime THEN "new"
    ELSE IF t - accessData.lastAccess < VeryHighHours THEN "very-high"
    ELSE IF t - accessData.lastAccess < HighHours THEN "high"
    ELSE IF t - accessData.lastAccess < MediumHours THEN "medium"
    ELSE "low"

(* ------------------------------ the state ------------------------------ *)

VARIABLES
    \* L0Bootstrap
    l0Initialized,          \* this.initialized
    lightweightReferences,  \* Map: entity name -> reference
    accessPatterns,         \* Map: entity name -> {count, lastAccess, frequency}
    l0Metrics,              \* this.metrics: accessCount, entitiesTransferred
    \* L1Repository
    connected,              \* this.connected
    entityCache,            \* Map: file reference -> entity
    connectionMetrics,      \* totalRequests, successfulRequests, failedRequests
    \* CortexManager
    initialized,            \* this.initialized
    cache,                  \* the LRUCache, least recently used entry first
    healthMonitor,          \* the HealthMonitor's cache hit and miss counters
    \* the run
    now,                    \* the clock
    req,                    \* per caller slot: the async call in progress
    initPc,                 \* where the call of CortexManager.initialize() stands
    microtasks,             \* continuations ready to run, in order: a slot, or 0 for initialize()
    calls,                  \* operations started
    \* history
    lastWritten,            \* per name: the body of the last completed write
    immediate,              \* the write just completed and the read that follows it
    lastPut,                \* the last call of createLightweightReference, how it ended, and
                            \* whether the client held its body at its file reference
    missRun                 \* names filled into the cache by consecutive misses

l0vars == <<l0Initialized, lightweightReferences, accessPatterns, l0Metrics>>

l1vars == <<connected, entityCache, connectionMetrics>>

cmvars == <<initialized, cache, healthMonitor>>

runvars == <<now, req, initPc, microtasks, calls>>

histvars == <<lastWritten, immediate, lastPut, missRun>>

vars == <<l0vars, l1vars, cmvars, runvars, histvars>>

(* ------------------------------ the inputs ----------------------------- *)

\* The names in use: the sample reference's (its file name differs from it in
\* case), two that are their own file names, one whose file name is empty.
Names == {SampleName, <<"a">>, <<"b">>, <<"!">>}

NoEntity ==
    [name |-> JsUndefined, entityType |-> JsUndefined, observations |-> JsUndefined,
     metadata |-> NoMetadata]

\* an entity of valid shape
FactEntity(entityName) ==
    [name |-> JsString(entityName), entityType |-> JsString(FactType),
     observations |-> JsArray(<<JsString(<<"o","1">>)>>), metadata |-> NoMetadata]

\* an entity without a name: validateEntitySchema rejects it
NamelessEntity ==
    [name |-> JsString(<< >>), entityType |-> JsString(FactType),
     observations |-> JsArray(<< >>), metadata |-> NoMetadata]

\* an entity of valid shape whose first observation is a number
NumberEntity(entityName) ==
    [name |-> JsString(entityName), entityType |-> JsString(FactType),
     observations |-> JsArray(<<JsNumber(<<"4","2">>)>>), metadata |-> NoMetadata]

\* what callers hand to storeEntity
StoreInputs ==
    {<<SampleName, FactEntity(SampleName)>>,
     <<<<"a">>, NamelessEntity>>, <<<<"a">>, NumberEntity(<<"a">>)>>}

\* what callers hand to createLightweightReference
PutInputs ==
    {<<SampleName, FactEntity(SampleName)>>,
     <<<<"a">>, NumberEntity(<<"a">>)>>, <<<<"!">>, FactEntity(<<"!">>)>>}

(* ------------------------------- Maps ---------------------------------- *)

EmptyMap == [k \in {} |-> 0]

MapSet(map, key, value) ==
    [k \in DOMAIN map \cup {key} |-> IF k = key THEN value ELSE map[k]]

(* --------------------- LRUCache (../cache/LRUCache) -------------------- *)

CacheKeys(c) == {c[i].key : i \in 1..Len(c)}

CacheHas(c, key) == key \in CacheKeys(c)

CacheValue(c, key) == c[CHOOSE i \in 1..Len(c) : c[i].key = key].value

CacheWithout(c, key) == SelectSeq(c, LAMBDA e : e.key # key)

\* get(key) on a hit: the entry becomes the most recently used
CachePromote(c, key) ==
    Append(CacheWithout(c, key), [key |-> key, value |-> CacheValue(c, key)])

\* set(key, value): insert or overwrite as most recently used, then evict the
\* least recently used entry while the size exceeds the capacity
CacheSet(c, key, value, capacity) ==
    LET put == Append(CacheWithout(c, key), [key |-> key, value |-> value])
    IN  IF Len(put) > capacity THEN SubSeq(put, Len(put) - capacity + 1, Len(put)) ELSE put

(* ---------------------------- CortexManager ---------------------------- *)

\* config.cacheSize || 100
cacheSize == IF ConfigCacheSize = 0 THEN DefaultCacheSize ELSE ConfigCacheSize

\* a faulty capacity: one entry more than configured
CacheCapacityOffByOne == cacheSize + 1

\* new LRUCache(this.config.cacheSize)
CacheCapacity == cacheSize

\* `entity:${entityName}`
CacheKey(entityName) == <<"e","n","t","i","t","y",":">> \o entityName

\* a faulty null check: the call goes on without a reference
NotFoundNever(refFound) == FALSE

\* if (!l0Ref): getLightweightReference resolved with null
NotFound(refFound) == ~refFound

(* ------------------------- the calls in progress ----------------------- *)

IdleReq ==
    [op |-> "none", pc |-> "idle", entityName |-> << >>, entityData |-> NoEntity,
     fileReference |-> << >>, refFound |-> FALSE, fullEntity |-> NoEntity,
     error |-> "",
     \* what the call did so far
     accesses |-> 0, nameAccesses |-> 0, probed |-> FALSE, cachedAtProbe |-> FALSE,
     loaded |-> FALSE,
     cacheMutated |-> FALSE, catalogMutated |-> FALSE, bodyMutated |-> FALSE,
     requests |-> 0, failed |-> 0, hits |-> 0, misses |-> 0,
     \* how the call stands to the writes of its name
     followsWrite |-> FALSE, writeSeen |-> FALSE, writeBody |-> NoEntity]

\* accessPatterns.get(entityName).count, 0 without an entry
AccessCount(patterns, entityName) ==
    IF entityName \in DOMAIN patterns THEN patterns[entityName].count ELSE 0

\* the record r of a call after a step, with what the step did added to it
Observed(r) ==
    [r EXCEPT
        !.accesses = @ + (l0Metrics'.accessCount - l0Metrics.accessCount),
        !.nameAccesses = @ + (AccessCount(accessPatterns', r.entityName)
                              - AccessCount(accessPatterns, r.entityName)),
        !.cacheMutated = @ \/ (cache' # cache),
        !.catalogMutated = @ \/ (lightweightReferences' # lightweightReferences),
        !.bodyMutated = @ \/ (entityCache' # entityCache),
        !.requests = @ + (connectionMetrics'.totalRequests - connectionMetrics.totalRequests),
        !.failed = @ + (connectionMetrics'.failedRequests - connectionMetrics.failedRequests),
        !.hits = @ + (healthMonitor'.cacheHits - healthMonitor.cacheHits),
        !.misses = @ + (healthMonitor'.cacheMisses - healthMonitor.cacheMisses)]

Free(p) == req[p].pc \in {"idle", "done"}

\* a call takes the first free slot
FirstFree(p) == Free(p) /\ \A q \in Procs : Free(q) => ~(q < p)

\* A timer callback is a task of its own: it runs when no continuation is
\* left in the job queue.  A caller can start an operation between any two
\* continuations (from a continuation of its own).
TimerCanFire == microtasks = << >>

IsNext(who) == microtasks # << >> /\ Head(microtasks) = who

NoImmediate == [active |-> FALSE, name |-> << >>, reader |-> 0]

\* `immediate` lasts while nothing but the read that follows the write runs
KeepImmediate(p) ==
    IF immediate.active /\ immediate.reader = p THEN immediate ELSE NoImmediate

\* the names whose cache entry a step removed lose "no eviction since the write"
Evicted(written, before, after) ==
    [n \in Names |->
        IF CacheKey(n) \in CacheKeys(before) \ CacheKeys(after)
        THEN [written[n] EXCEPT !.evicted = TRUE]
        ELSE written[n]]

(* ------------------------------ L0Bootstrap ---------------------------- *)

NoAccess == [count |-> 0, lastAccess |-> NoTime, frequency |-> "new"]

\* a faulty recordAccess: the access is not recorded
recordAccessNone(patterns, entityName, t) == patterns

\* recordAccess(entityName): the access patterns after it
recordAccess(patterns, entityName, t) ==
    LET current == IF entityName \in DOMAIN patterns THEN patterns[entityName] ELSE NoAccess
    IN  MapSet(patterns, entityName,
               [count |-> current.count + 1, lastAccess |-> t,
                frequency |-> calculateAccessFrequency(current, t)])

\* a faulty update: every reference is touched
TouchReferenceAll(references, entityName, t) ==
    [n \in DOMAIN references |->
        [references[n] EXCEPT !.lastAccessed = t, !.accessCount = @ + 1]]

\* getLightweightReference, the update of the reference found
TouchReference(references, entityName, t) ==
    IF entityName \in DOMAIN references
    THEN [references EXCEPT ![entityName] =
              [@ EXCEPT !.lastAccessed = t, !.accessCount = @ + 1]]
    ELSE references

\* the sample reference as loadLightweightReferences sets it
SampleReference(t) ==
    [entityName |-> SampleName, fileReference |-> SampleFileReference,
     summary |-> SampleSummary, priority |-> "critical",
     size |-> [tenths |-> 21, unit |-> "KB"], evidenceQuality |-> "T1",
     createdAt |-> t, lastAccessed |-> t, accessCount |-> 0,
     transferredAt |-> NoTime]

\* a faulty load: the catalog is replaced by the sample reference
loadLightweightReferencesFresh(references, t) ==
    MapSet(EmptyMap, SampleName, SampleReference(t))

\* loadLightweightReferences: the sample reference is set anew
loadLightweightReferences(references, t) ==
    MapSet(references, SampleName, SampleReference(t))

\* createLightweightReference throws what a derivation throws
CreateThrows(fullEntity) ==
    \/ generateSummary(fullEntity).threw
    \/ extractEvidenceQuality(fullEntity) = "TypeError"

NewReference(entityName, fullEntity, fileReference, t) ==
    [entityName |-> entityName, fileReference |-> fileReference,
     summary |-> generateSummary(fullEntity).value,
     priority |-> calculatePriority(fullEntity),
     size |-> calculateSize(fullEntity),
     evidenceQuality |-> extractEvidenceQuality(fullEntity),
     createdAt |-> t, lastAccessed |-> t, accessCount |-> 0, transferredAt |-> t]

(* --------------------------- the event loop ---------------------------- *)

\* the results of settled calls are consumed when the next operation starts
Consumed == [q \in Procs |-> IF req[q].pc = "done" THEN IdleReq ELSE req[q]]

SetReq(p, r) == req' = [req EXCEPT ![p] = Observed(r)]

\* a call starts in slot p
StartReq(p, r) == req' = [Consumed EXCEPT ![p] = Observed(r)]

\* the call of p settles at the end of a continuation
Settle(p, r) ==
    /\ SetReq(p, [r EXCEPT !.pc = "done"])
    /\ microtasks' = Tail(microtasks)

\* the call of p goes on after an await of a settled promise
Continue(p, r) ==
    /\ SetReq(p, r)
    /\ microtasks' = Append(Tail(microtasks), p)

\* the call of p waits for a timer
Suspend(p, r) ==
    /\ SetReq(p, r)
    /\ microtasks' = Tail(microtasks)

\* An operation starts: the clock is logical, it advances with every start.
Started(elapsed) ==
    /\ calls < MaxCalls
    /\ calls' = calls + 1
    /\ now' = now + elapsed

Elapsed == {1}

(* ----------------------- CortexManager.getEntity ----------------------- *)

\* The call, up to `await this.l0Bootstrap.getLightweightReference(entityName)`:
\* the synchronous body of getLightweightReference runs within the call.
GetEntity(p, entityName, elapsed) ==
    /\ FirstFree(p)
    /\ Started(elapsed)
    /\ immediate' = IF immediate.active /\ immediate.reader = 0
                       /\ immediate.name = entityName /\ initialized
                    THEN [immediate EXCEPT !.reader = p]
                    ELSE NoImmediate
    /\ UNCHANGED <<l0Initialized, l1vars, cmvars, initPc, lastWritten, lastPut, missRun>>
    /\ LET r == [IdleReq EXCEPT !.op = "get", !.entityName = entityName,
                                !.writeSeen = lastWritten[entityName].has]
       IN  IF ~initialized
           THEN /\ UNCHANGED <<lightweightReferences, accessPatterns, l0Metrics>>
                /\ StartReq(p, [r EXCEPT !.pc = "done",
                                       !.error = CortexNotInitialized])
                /\ microtasks' = microtasks
           ELSE IF ~l0Initialized
           THEN /\ UNCHANGED <<lightweightReferences, accessPatterns, l0Metrics>>
                /\ StartReq(p, [r EXCEPT !.pc = "done",
                                       !.error = L0NotInitialized])
                /\ microtasks' = microtasks
           ELSE /\ accessPatterns' = recordAccess(accessPatterns, entityName, now')
                /\ l0Metrics' = [l0Metrics EXCEPT !.accessCount = @ + 1]
                /\ lightweightReferences' = TouchReference(lightweightReferences, entityName, now')
                /\ StartReq(p, [r EXCEPT
                        !.pc = "resolved",
                        !.refFound = entityName \in DOMAIN lightweightReferences,
                        !.fileReference =
                            IF entityName \in DOMAIN lightweightReferences
                            THEN lightweightReferences[entityName].fileReference
                            ELSE << >>])
                /\ microtasks' = Append(microtasks, p)

\* After the await: the null check, the cache probe and, on a miss, the call of
\* L1Repository.getEntity up to `await this.loadEntityFromRepository(...)`.
GetEntityProbe(p) ==
    /\ IsNext(p)
    /\ req[p].op = "get" /\ req[p].pc = "resolved"
    /\ immediate' = KeepImmediate(p)
    /\ UNCHANGED <<l0vars, connected, entityCache, initialized, now, initPc, calls,
                   lastWritten, lastPut>>
    /\ LET r == req[p]
           key == CacheKey(r.entityName)
           done == [r EXCEPT !.followsWrite = immediate.active /\ immediate.reader = p,
                             !.writeSeen = @ /\ ~lastWritten[r.entityName].evicted,
                             !.writeBody = lastWritten[r.entityName].entity]
       IN  IF NotFound(r.refFound)
           THEN /\ UNCHANGED <<connectionMetrics, cache, healthMonitor, missRun>>
                /\ Settle(p, [done EXCEPT !.error = EntityNotFound])
           ELSE IF CacheHas(cache, key)
           THEN /\ healthMonitor' = [healthMonitor EXCEPT !.cacheHits = @ + 1]
                /\ cache' = CachePromote(cache, key)
                /\ missRun' = << >>
                /\ UNCHANGED connectionMetrics
                /\ Settle(p, [done EXCEPT !.probed = TRUE, !.cachedAtProbe = TRUE,
                                          !.fullEntity = CacheValue(cache, key)])
           ELSE IF ~connected
           THEN /\ UNCHANGED <<connectionMetrics, cache, healthMonitor, missRun>>
                /\ Settle(p, [done EXCEPT !.probed = TRUE,
                                          !.error = L1NotConnected])
           ELSE /\ connectionMetrics' = [connectionMetrics EXCEPT !.totalRequests = @ + 1]
                /\ UNCHANGED <<cache, healthMonitor, missRun>>
                /\ IF r.fileReference \in DOMAIN entityCache
                   THEN Continue(p, [r EXCEPT !.probed = TRUE, !.pc = "fetched",
                                              !.fullEntity = entityCache[r.fileReference]])
                   ELSE Suspend(p, [r EXCEPT !.probed = TRUE, !.pc = "loading"])

\* The timer of loadEntityFromRepository fires; getEntity of L1Repository goes
\* on to `await this.validateEntitySchema(entity)`.
LoadResolved(p) ==
    /\ TimerCanFire
    /\ req[p].op = "get" /\ req[p].pc = "loading"
    /\ req' = [req EXCEPT ![p] = [@ EXCEPT !.pc = "validating", !.loaded = TRUE,
                                           !.fullEntity = LoadedEntity(req[p].fileReference, now)]]
    /\ microtasks' = Append(microtasks, p)
    /\ immediate' = KeepImmediate(p)
    /\ UNCHANGED <<l0vars, l1vars, cmvars, now, initPc, calls, lastWritten, lastPut, missRun>>

\* a faulty failure path: the miss is counted although the fetch failed
LoadValidatedCountsMiss(p) ==
    /\ IsNext(p)
    /\ req[p].op = "get" /\ req[p].pc = "validating"
    /\ immediate' = KeepImmediate(p)
    /\ UNCHANGED <<l0vars, connected, initialized, cache, now, initPc, calls,
                   lastWritten, lastPut, missRun>>
    /\ LET r == req[p]
       IN  IF validateEntitySchema(r.fullEntity) = "ok"
           THEN /\ entityCache' = MapSet(entityCache, r.fileReference, r.fullEntity)
                /\ connectionMetrics' = [connectionMetrics EXCEPT !.successfulRequests = @ + 1]
                /\ UNCHANGED healthMonitor
                /\ Continue(p, [r EXCEPT !.pc = "fetched"])
           ELSE /\ entityCache' = entityCache
                /\ connectionMetrics' = [connectionMetrics EXCEPT !.failedRequests = @ + 1]
                /\ healthMonitor' = [healthMonitor EXCEPT !.cacheMisses = @ + 1]
                /\ Settle(p, [r EXCEPT !.error = FailedToLoad])

\* a faulty failure path: the call goes on to fill the cache although the
\* fetch failed
LoadValidatedFillsAnyway(p) ==
    /\ IsNext(p)
    /\ req[p].op = "get" /\ req[p].pc = "validating"
    /\ immediate' = KeepImmediate(p)
    /\ UNCHANGED <<l0vars, connected, cmvars, now, initPc, calls, lastWritten, lastPut, missRun>>
    /\ LET r == req[p]
       IN  IF validateEntitySchema(r.fullEntity) = "ok"
           THEN /\ entityCache' = MapSet(entityCache, r.fileReference, r.fullEntity)
                /\ connectionMetrics' = [connectionMetrics EXCEPT !.successfulRequests = @ + 1]
                /\ Continue(p, [r EXCEPT !.pc = "fetched"])
           ELSE /\ entityCache' = entityCache
                /\ connectionMetrics' = [connectionMetrics EXCEPT !.failedRequests = @ + 1]
                /\ Continue(p, [r EXCEPT !.pc = "fetched"])

\* After the validation: the entity is cached by the client and returned, or
\* the catch block counts the failure and throws.
LoadValidated(p) ==
    /\ IsNext(p)
    /\ req[p].op = "get" /\ req[p].pc = "validating"
    /\ immediate' = KeepImmediate(p)
    /\ UNCHANGED <<l0vars, connected, cmvars, now, initPc, calls, lastWritten, lastPut, missRun>>
    /\ LET r == req[p]
       IN  IF validateEntitySchema(r.fullEntity) = "ok"
           THEN /\ entityCache' = MapSet(entityCache, r.fileReference, r.fullEntity)
                /\ connectionMetrics' = [connectionMetrics EXCEPT !.successfulRequests = @ + 1]
                /\ Continue(p, [r EXCEPT !.pc = "fetched"])
           ELSE /\ entityCache' = entityCache
                /\ connectionMetrics' = [connectionMetrics EXCEPT !.failedRequests = @ + 1]
                /\ Settle(p, [r EXCEPT
                        !.error = FailedToLoad,
                        !.followsWrite = immediate.active /\ immediate.reader = p,
                        !.writeSeen = @ /\ ~lastWritten[r.entityName].evicted,
                        !.writeBody = lastWritten[r.entityName].entity])

\* Back in CortexManager.getEntity: the entity is cached and the miss counted.
CacheFill(p) ==
    /\ IsNext(p)
    /\ req[p].op = "get" /\ req[p].pc = "fetched"
    /\ immediate' = KeepImmediate(p)
    /\ UNCHANGED <<l0vars, l1vars, initialized, now, initPc, calls, lastPut>>
    /\ LET r == req[p]
       IN  /\ cache' = CacheSet(cache, CacheKey(r.entityName), r.fullEntity, CacheCapacity)
           /\ healthMonitor' = [healthMonitor EXCEPT !.cacheMisses = @ + 1]
           /\ lastWritten' = Evicted(lastWritten, cache, cache')
           /\ missRun' = IF \E i \in 1..Len(missRun) : missRun[i] = r.entityName
                         THEN <<r.entityName>>
                         ELSE Append(missRun, r.entityName)
           /\ Settle(p, [r EXCEPT
                   !.followsWrite = immediate.active /\ immediate.reader = p,
                   !.writeSeen = @ /\ ~lastWritten[r.entityName].evicted,
                   !.writeBody = lastWritten[r.entityName].entity])

(* ----------------------- L1Repository.storeEntity ---------------------- *)

\* The call, up to `await this.validateEntitySchema(entityData)`.
StoreEntity(p, entityName, entityData, elapsed) ==
    /\ FirstFree(p)
    /\ Started(elapsed)
    /\ immediate' = NoImmediate
    /\ UNCHANGED <<l0vars, connected, entityCache, cmvars, initPc,
                   lastWritten, lastPut, missRun>>
    /\ LET r == [IdleReq EXCEPT !.op = "store", !.entityName = entityName,
                                !.entityData = entityData]
       IN  IF ~connected
           THEN /\ UNCHANGED connectionMetrics
                /\ StartReq(p, [r EXCEPT !.pc = "done", !.error = L1NotConnectedStore])
                /\ microtasks' = microtasks
           ELSE /\ connectionMetrics' = [connectionMetrics EXCEPT !.totalRequests = @ + 1]
                /\ StartReq(p, [r EXCEPT !.pc = "storeValidating",
                                       !.fileReference = generateFileReference(entityName)])
                /\ microtasks' = Append(microtasks, p)

\* After the validation: the catch block, or processEntityForStorage (which
\* touches nothing shared) and the call of storeEntityInRepository.
StoreValidated(p) ==
    /\ IsNext(p)
    /\ req[p].op = "store" /\ req[p].pc = "storeValidating"
    /\ immediate' = NoImmediate
    /\ UNCHANGED <<l0vars, connected, entityCache, cmvars, now, initPc, calls,
                   lastWritten, lastPut, missRun>>
    /\ IF validateEntitySchema(req[p].entityData) = "ok"
       THEN /\ UNCHANGED connectionMetrics
            /\ Suspend(p, [req[p] EXCEPT !.pc = "storing"])
       ELSE /\ connectionMetrics' = [connectionMetrics EXCEPT !.failedRequests = @ + 1]
            /\ Settle(p, [req[p] EXCEPT !.error = FailedToStore])

\* The timer of storeEntityInRepository fires.
StoreResolved(p) ==
    /\ TimerCanFire
    /\ req[p].op = "store" /\ req[p].pc = "storing"
    /\ req' = [req EXCEPT ![p].pc = "stored"]
    /\ microtasks' = Append(microtasks, p)
    /\ immediate' = NoImmediate
    /\ UNCHANGED <<l0vars, l1vars, cmvars, now, initPc, calls, lastWritten, lastPut, missRun>>

\* The client caches the entity as given and returns the file reference.
StoreFinish(p) ==
    /\ IsNext(p)
    /\ req[p].op = "store" /\ req[p].pc = "stored"
    /\ entityCache' = MapSet(entityCache, req[p].fileReference, req[p].entityData)
    /\ connectionMetrics' = [connectionMetrics EXCEPT !.successfulRequests = @ + 1]
    /\ immediate' = NoImmediate
    /\ UNCHANGED <<l0vars, connected, cmvars, now, initPc, calls, lastWritten, lastPut, missRun>>
    /\ Settle(p, req[p])

(* ---------------- L0Bootstrap.createLightweightReference --------------- *)

\* The body has no await: it runs within the call.  The file reference is the
\* one storeEntity returns for the name.  A put whose body is the body the
\* client holds at the reference completes a write of the name.
CreateLightweightReference(entityName, fullEntity, elapsed) ==
    /\ Started(elapsed)
    /\ UNCHANGED <<l0Initialized, accessPatterns, l1vars, cmvars, initPc, microtasks, missRun>>
    /\ LET fileReference == generateFileReference(entityName)
           outcome == IF ~l0Initialized THEN "notInitialized"
                      ELSE IF CreateThrows(fullEntity) THEN "threw"
                      ELSE "created"
           persisted == /\ fileReference \in DOMAIN entityCache
                        /\ entityCache[fileReference] = fullEntity
           written == outcome = "created" /\ persisted
       IN  /\ lastPut' = [entityName |-> entityName, fullEntity |-> fullEntity,
                          fileReference |-> fileReference, outcome |-> outcome,
                          persisted |-> persisted]
           /\ IF outcome = "created"
              THEN /\ lightweightReferences' =
                        MapSet(lightweightReferences, entityName,
                               NewReference(entityName, fullEntity, fileReference, now'))
                   /\ l0Metrics' = [l0Metrics EXCEPT !.entitiesTransferred = @ + 1]
              ELSE UNCHANGED <<lightweightReferences, l0Metrics>>
           /\ IF written
              THEN /\ lastWritten' = [lastWritten EXCEPT ![entityName] =
                                         [has |-> TRUE, entity |-> fullEntity, evicted |-> FALSE]]
                   /\ immediate' = [active |-> TRUE, name |-> entityName, reader |-> 0]
                   /\ req' = [q \in Procs |->
                                IF req[q].op = "get" /\ req[q].entityName = entityName
                                THEN [Consumed[q] EXCEPT !.writeSeen = FALSE]
                                ELSE Consumed[q]]
              ELSE /\ immediate' = NoImmediate
                   /\ req' = Consumed
                   /\ UNCHANGED lastWritten

(* ----------------------- CortexManager.initialize ---------------------- *)

\* The call, up to `await this.loadLightweightReferences()` in
\* L0Bootstrap.initialize: loadLightweightReferences has no await and runs
\* within the call.
Initialize(elapsed) ==
    /\ initPc \in {"idle", "failed"}
    /\ Started(elapsed)
    /\ lightweightReferences' = loadLightweightReferences(lightweightReferences, now')
    /\ initPc' = "l0Loaded"
    /\ microtasks' = Append(microtasks, 0)
    /\ immediate' = NoImmediate
    /\ req' = Consumed
    /\ UNCHANGED <<l0Initialized, accessPatterns, l0Metrics, l1vars, cmvars,
                   lastWritten, lastPut, missRun>>

\* L0Bootstrap.initialize after the await
InitializeL0(who) ==
    /\ IsNext(who)
    /\ initPc = "l0Loaded"
    /\ l0Initialized' = TRUE
    /\ initPc' = "l0Ready"
    /\ microtasks' = Append(Tail(microtasks), who)
    /\ immediate' = NoImmediate
    /\ UNCHANGED <<lightweightReferences, accessPatterns, l0Metrics, l1vars, cmvars, now, req,
                   calls, lastWritten, lastPut, missRun>>

\* L1Repository.connect up to the timer of validateRepositoryAccess
Connect(who) ==
    /\ IsNext(who)
    /\ initPc = "l0Ready"
    /\ initPc' = "validatingAccess"
    /\ microtasks' = Tail(microtasks)
    /\ immediate' = NoImmediate
    /\ UNCHANGED <<l0vars, l1vars, cmvars, now, req, calls, lastWritten, lastPut, missRun>>

\* the timer of validateRepositoryAccess fires
AccessValidated(who) ==
    /\ TimerCanFire
    /\ initPc = "validatingAccess"
    /\ initPc' = "connecting"
    /\ microtasks' = Append(microtasks, who)
    /\ immediate' = NoImmediate
    /\ UNCHANGED <<l0vars, l1vars, cmvars, now, req, calls, lastWritten, lastPut, missRun>>

\* connect after initializeSchemaValidation and loadRepositoryMetadata, which
\* touch nothing shared
Connected(who) ==
    /\ IsNext(who)
    /\ initPc = "connecting"
    /\ connected' = TRUE
    /\ initPc' = "connected"
    /\ microtasks' = Append(Tail(microtasks), who)
    /\ immediate' = NoImmediate
    /\ UNCHANGED <<l0vars, entityCache, connectionMetrics, cmvars, now, req, calls,
                   lastWritten, lastPut, missRun>>

\* entityManager.initialize and healthMonitor.start, then this.initialized
Initialized(who) ==
    /\ IsNext(who)
    /\ initPc = "connected"
    /\ initialized' = TRUE
    /\ initPc' = "idle"
    /\ microtasks' = Tail(microtasks)
    /\ immediate' = NoImmediate
    /\ UNCHANGED <<l0vars, l1vars, cache, healthMonitor, now, req, calls,
                   lastWritten, lastPut, missRun>>

\* entityManager.initialize or healthMonitor.start rejects: the catch block of
\* CortexManager.initialize logs and rethrows, and the call ends rejected.
InitializeFailed(who) ==
    /\ IsNext(who)
    /\ initPc = "connected"
    /\ initPc' = "failed"
    /\ microtasks' = Tail(microtasks)
    /\ immediate' = NoImmediate
    /\ UNCHANGED <<l0vars, l1vars, cmvars, now, req, calls, lastWritten, lastPut, missRun>>

(* --------------------------- the specification ------------------------- *)

\* what callers ask getEntity for: the names that have a reference, and one
\* that may have none
ReadNames == DOMAIN lightweightReferences \cup {<<"a">>}

Init ==
    /\ l0Initialized = FALSE
    /\ lightweightReferences = EmptyMap
    /\ accessPatterns = EmptyMap
    /\ l0Metrics = [accessCount |-> 0, entitiesTransferred |-> 0]
    /\ connected = FALSE
    /\ entityCache = EmptyMap
    /\ connectionMetrics = [totalRequests |-> 0, successfulRequests |-> 0, failedRequests |-> 0]
    /\ initialized = FALSE
    /\ cache = << >>
    /\ healthMonitor = [cacheHits |-> 0, cacheMisses |-> 0]
    /\ now = 0
    /\ req = [p \in Procs |-> IdleReq]
    /\ initPc = "idle"
    /\ microtasks = << >>
    /\ calls = 0
    /\ lastWritten = [n \in Names |-> [has |-> FALSE, entity |-> NoEntity, evicted |-> FALSE]]
    /\ immediate = NoImmediate
    /\ lastPut = [entityName |-> << >>, fullEntity |-> NoEntity, fileReference |-> << >>,
                  outcome |-> "none", persisted |-> FALSE]
    /\ missRun = << >>

Next ==
    \/ \E d \in Elapsed : Initialize(d)
    \/ InitializeL0(0)
    \/ Connect(0)
    \/ AccessValidated(0)
    \/ Connected(0)
    \/ Initialized(0)
    \/ \E p \in Procs, n \in ReadNames, d \in Elapsed : GetEntity(p, n, d)
    \/ \E p \in Procs : GetEntityProbe(p)
    \/ \E p \in Procs : LoadResolved(p)
    \/ \E p \in Procs : LoadValidated(p)
    \/ \E p \in Procs : CacheFill(p)
    \/ \E p \in Procs, i \in StoreInputs, d \in Elapsed : StoreEntity(p, i[1], i[2], d)
    \/ \E p \in Procs : StoreValidated(p)
    \/ \E p \in Procs : StoreResolved(p)
    \/ \E p \in Procs : StoreFinish(p)
    \/ \E i \in PutInputs, d \in Elapsed : CreateLightweightReference(i[1], i[2], d)

Spec == Init /\ [][Next]_vars

(* ------------------- a core whose initialize can fail ------------------ *)

NextFail ==
    \/ Next
    \/ InitializeFailed(0)

SpecFail == Init /\ [][NextFail]_vars

(* --------------------------- a core in service ------------------------- *)

\* The state after initialize() at time 1, createLightweightReference for "a"
\* at time 2 and for "b" at time 3, each with an entity of valid shape, and a
\* getEntity of the sample name at time 4 that ran to its end: three names
\* have a reference, and the sample entity as loaded is cached by the client
\* and by the core.
WarmReferences ==
    TouchReference(
        MapSet(MapSet(loadLightweightReferences(EmptyMap, 1),
                      <<"a">>, NewReference(<<"a">>, FactEntity(<<"a">>),
                                            generateFileReference(<<"a">>), 2)),
               <<"b">>, NewReference(<<"b">>, FactEntity(<<"b">>),
                                     generateFileReference(<<"b">>), 3)),
        SampleName, 4)

WarmEntity == LoadedEntity(SampleFileReference, 4)

WarmReq ==
    [IdleReq EXCEPT !.op = "get", !.pc = "done", !.entityName = SampleName,
                    !.fileReference = SampleFileReference, !.refFound = TRUE,
                    !.fullEntity = WarmEntity, !.accesses = 1, !.nameAccesses = 1,
                    !.probed = TRUE, !.loaded = TRUE, !.cacheMutated = TRUE,
                    !.catalogMutated = TRUE, !.bodyMutated = TRUE,
                    !.requests = 1, !.misses = 1]

Warm ==
    /\ l0Initialized = TRUE
    /\ lightweightReferences = WarmReferences
    /\ accessPatterns = recordAccess(EmptyMap, SampleName, 4)
    /\ l0Metrics = [accessCount |-> 1, entitiesTransferred |-> 2]
    /\ connected = TRUE
    /\ entityCache = MapSet(EmptyMap, SampleFileReference, WarmEntity)
    /\ connectionMetrics = [totalRequests |-> 1, successfulRequests |-> 1, failedRequests |-> 0]
    /\ initialized = TRUE
    /\ cache = CacheSet(<< >>, CacheKey(SampleName), WarmEntity, CacheCapacity)
    /\ healthMonitor = [cacheHits |-> 0, cacheMisses |-> 1]
    /\ now = 4
    /\ req = [p \in Procs |-> IF p = 1 THEN WarmReq ELSE IdleReq]
    /\ initPc = "idle"
    /\ microtasks = << >>
    /\ lastWritten = [n \in Names |-> [has |-> FALSE, entity |-> NoEntity, evicted |-> FALSE]]
    /\ immediate = NoImmediate
    /\ lastPut = [entityName |-> <<"b">>, fullEntity |-> FactEntity(<<"b">>),
                  fileReference |-> generateFileReference(<<"b">>),
                  outcome |-> "created", persisted |-> FALSE]
    /\ missRun = <<SampleName>>

\* `calls` starts at one: the operations that led here count as the first
InitWarm == Warm /\ calls = 1

SpecWarm == InitWarm /\ [][Next]_vars

(* ------------------ storeEntity under names of all kinds ---------------- *)

\* The state after initialize() at time 1, nothing else called.
Ready ==
    /\ l0Initialized = TRUE
    /\ lightweightReferences = loadLightweightReferences(EmptyMap, 1)
    /\ accessPatterns = EmptyMap
    /\ l0Metrics = [accessCount |-> 0, entitiesTransferred |-> 0]
    /\ connected = TRUE
    /\ entityCache = EmptyMap
    /\ connectionMetrics = [totalRequests |-> 0, successfulRequests |-> 0, failedRequests |-> 0]
    /\ initialized = TRUE
    /\ cache = << >>
    /\ healthMonitor = [cacheHits |-> 0, cacheMisses |-> 0]
    /\ now = 1
    /\ req = [p \in Procs |-> IdleReq]
    /\ initPc = "idle"
    /\ microtasks = << >>
    /\ lastWritten = [n \in Names |-> [has |-> FALSE, entity |-> NoEntity, evicted |-> FALSE]]
    /\ immediate = NoImmediate
    /\ lastPut = [entityName |-> << >>, fullEntity |-> NoEntity, fileReference |-> << >>,
                  outcome |-> "none", persisted |-> FALSE]
    /\ missRun = << >>

\* the characters of the names: a capital, a small letter, a digit, the
\* underscore and a character outside [a-z0-9_]
Alphabet == {"A", "b", "1", "_", "!"}

\* the longest name
MaxLen == 3

NameStrings == UNION {[1..k -> Alphabet] : k \in 1..MaxLen}

\* one operation is left, on a core just initialized or on one in service
InitStore == (Ready \/ Warm) /\ calls = MaxCalls - 1

NextStore ==
    \/ \E p \in Procs, n \in NameStrings : StoreEntity(p, n, FactEntity(n), 1)
    \/ \E p \in Procs : StoreValidated(p)
    \/ \E p \in Procs : StoreResolved(p)
    \/ \E p \in Procs : StoreFinish(p)

SpecStore == InitStore /\ [][NextStore]_vars

(* ------------ createLightweightReference under entities of all kinds ---------- *)

\* the most observations of an entity
MaxObservations == 12

\* entities of both kinds of type with 0 to MaxObservations observations
PriorityEntities ==
    {[name |-> JsString(<<"a">>), entityType |-> JsString(ty),
      observations |-> JsArray([i \in 1..k |-> JsString(<<"o">>)]),
      metadata |-> NoMetadata] : ty \in {BootstrapType, FactType}, k \in 0..MaxObservations}

\* observation texts: without a tier marker, and with each of the markers
TierTexts == {<<"o">>, <<"o">> \o TierT1, TierT2 \o <<"o">>, TierT3}

\* the most observations of an entity that carries tier markers
MaxTierObservations == 3

\* entities with up to MaxTierObservations observations drawn from TierTexts
TierEntities ==
    {[name |-> JsString(<<"a">>), entityType |-> JsString(FactType),
      observations |-> JsArray([i \in 1..Len(texts) |-> JsString(texts[i])]),
      metadata |-> NoMetadata] :
        texts \in UNION {[1..k -> TierTexts] : k \in 0..MaxTierObservations}}

\* one operation is left, on a core just initialized or on one in service
InitPut == (Ready \/ Warm) /\ calls = MaxCalls - 1

NextPut ==
    \E e \in PriorityEntities \cup TierEntities : CreateLightweightReference(<<"a">>, e, 1)

SpecPut == InitPut /\ [][NextPut]_vars

(* ------------------------------ properties ----------------------------- *)

\* the call in slot p is a getEntity
IsGet(p) == req[p].op = "get"

\* the getEntity in slot p has settled
Ended(p) == IsGet(p) /\ req[p].pc = "done"

\* the getEntity in slot p was refused because the core was not initialized
Refused(p) == req[p].error \in {CortexNotInitialized, L0NotInitialized}

\* L1Repository.getEntity as a read: what a fetch of the file reference yields
Fetch(fileReference) ==
    IF fileReference \in DOMAIN entityCache
    THEN entityCache[fileReference]
    ELSE LoadedEntity(fileReference, now)

\* C1: a getEntity(n) that immediately follows a completed write of n is a
\* hit of the bounded cache: it counts one cache hit and sends the backing
\* store client no request.
C1_ReadAfterWriteIsHit ==
    \A p \in Procs :
        Ended(p) /\ req[p].followsWrite => req[p].hits = 1 /\ req[p].requests = 0

\* C2: round trip: a getEntity(n) that starts after a completed write of E
\* under n, with no eviction of n and no further write of n before it ends,
\* and that succeeds, returns E as written.
C2_RoundTrip ==
    \A p \in Procs :
        Ended(p) /\ req[p].writeSeen /\ req[p].error = ""
            => req[p].fullEntity = req[p].writeBody

\* C3: a getEntity(n) on an initialized core for a name without a reference
\* fails with the entity-not-found error; the call does not probe or modify
\* the bounded cache and sends the backing store client no request.
C3_CatalogMiss ==
    \A p \in Procs :
        IsGet(p) /\ ~req[p].refFound /\ ~Refused(p)
            => /\ ~req[p].probed /\ ~req[p].cacheMutated /\ req[p].requests = 0
               /\ req[p].pc = "done" => req[p].error = EntityNotFound

C3_Witness ==
    \E p \in Procs :
        /\ Ended(p) /\ req[p].error = EntityNotFound /\ req[p].accesses = 1
        /\ ~req[p].probed /\ req[p].requests = 0

\* C4: the bounded cache holds at most cacheSize entries, one per key; once
\* more than cacheSize distinct names were filled in by misses with no hit in
\* between, the names filled in first are no longer cached; and a getEntity
\* that finds its key not cached counts no hit.
C4_BoundedCache ==
    /\ Len(cache) <= cacheSize
    /\ \A i, j \in 1..Len(cache) : cache[i].key = cache[j].key => i = j
    /\ \A i \in 1..Len(missRun) :
          i <= Len(missRun) - cacheSize => ~CacheHas(cache, CacheKey(missRun[i]))
    /\ \A p \in Procs :
          IsGet(p) /\ req[p].probed /\ ~req[p].cachedAtProbe => req[p].hits = 0

\* cacheSize + 1 names were filled in, and the getEntity of the first of them
\* that follows found it not cached
C4_Witness ==
    /\ Len(missRun) = cacheSize + 1
    /\ Len(cache) = cacheSize
    /\ \E p \in Procs :
          /\ IsGet(p) /\ req[p].entityName = missRun[1]
          /\ req[p].probed /\ ~req[p].cachedAtProbe /\ req[p].hits = 0

\* C5: a getEntity whose fetch from the backing store fails ends with the
\* backing store's error; the call leaves the bounded cache as it was and
\* counts neither a cache hit nor a cache miss.
C5_FetchFailure ==
    \A p \in Procs :
        IsGet(p) /\ req[p].failed > 0
            => /\ req[p].pc = "done" /\ req[p].error = FailedToLoad
               /\ ~req[p].cacheMutated /\ req[p].hits = 0 /\ req[p].misses = 0

C5_Witness ==
    \E p \in Procs :
        /\ Ended(p) /\ req[p].error = FailedToLoad /\ req[p].failed = 1
        /\ req[p].probed /\ ~req[p].cachedAtProbe /\ req[p].requests = 1

\* C6: a getEntity that fails for a missing reference or a failed fetch
\* leaves the catalog as it was: the call changes no reference.
C6_FailureLeavesCatalog ==
    \A p \in Procs :
        Ended(p) /\ req[p].error \in {EntityNotFound, FailedToLoad}
            => ~req[p].catalogMutated

\* C7: every getEntity(n) on an initialized core records one access, however
\* it ends: the total access count and the count of n each grow by one.
C7_OneAccess ==
    \A p \in Procs :
        IsGet(p) /\ ~Refused(p) => req[p].accesses = 1 /\ req[p].nameAccesses = 1

\* a getEntity that ended with a failed fetch, its one access in the tracker
C7_Witness ==
    \E p \in Procs :
        /\ Ended(p) /\ req[p].error = FailedToLoad
        /\ req[p].accesses = 1 /\ req[p].nameAccesses = 1
        /\ AccessCount(accessPatterns, req[p].entityName) = 1
        /\ l0Metrics.accessCount = 1

\* C8: a write is atomic: a storeEntity that fails changes neither the
\* catalog, the bounded cache nor the body held at the file reference; and
\* when the catalog put of a write throws, the body of the write is not held
\* at its file reference either (reference and body change both or neither).
C8_WriteAtomic ==
    /\ \A p \in Procs :
          req[p].op = "store" /\ req[p].error # ""
              => ~req[p].catalogMutated /\ ~req[p].cacheMutated /\ ~req[p].bodyMutated
    /\ lastPut.outcome = "threw" => ~lastPut.persisted

\* C9: once initialized, every reference's file reference is fetched with
\* success and yields a body named as the reference; and every body held has
\* exactly one reference.
C9_ReferenceBodyConsistency ==
    initialized =>
        /\ \A n \in DOMAIN lightweightReferences :
              LET body == Fetch(lightweightReferences[n].fileReference)
              IN  validateEntitySchema(body) = "ok" /\ body.name = JsString(n)
        /\ \A f \in DOMAIN entityCache :
              Cardinality({n \in DOMAIN lightweightReferences :
                              lightweightReferences[n].fileReference = f}) = 1

\* C10: of the getEntity calls in progress for one name, at most one is
\* loading the body from the repository.
C10_AtMostOneFetch ==
    \A n \in Names :
        Cardinality({p \in Procs : IsGet(p) /\ req[p].entityName = n
                                     /\ req[p].pc = "loading"}) <= 1

\* C11: the catalog holds only references that a catalog put created: after
\* initialize with nothing put it is empty, and after one write of a new
\* name it holds that one reference.
C11_OnlyWrittenReferences ==
    initialized =>
        \A n \in DOMAIN lightweightReferences :
            lightweightReferences[n].transferredAt # NoTime

\* C12: initialize of the catalog is idempotent: on an initialized catalog it
\* leaves the set of references and every field of every reference as they
\* were.
C12_InitializeIdempotent ==
    [][initPc # "l0Loaded" /\ initPc' = "l0Loaded" /\ l0Initialized
          => lightweightReferences' = lightweightReferences]_vars

\* C13: when initialize of the core has failed, nothing is left initialized:
\* not the orchestrator, not the catalog, and the backing-store client is not
\* connected.
C13_NoPartialInitialization ==
    initPc = "failed" => ~initialized /\ ~l0Initialized /\ ~connected

\* C14: a fetch of a file reference at which no body was persisted fails, with
\* an error other than the catalog's entity-not-found.  (The repository is
\* asked to load only when the client holds no body at the file reference,
\* and the client holds every body that was stored.)
C14_FetchOfAbsentBodyFails ==
    \A p \in Procs :
        Ended(p) /\ req[p].loaded => req[p].error \notin {"", EntityNotFound}

\* the minimal entity shape: name and entityType are non-empty strings and
\* observations is an array
MinimalShape(entity) ==
    /\ entity.name.t = "string" /\ entity.name.s # << >>
    /\ entity.entityType.t = "string" /\ entity.entityType.s # << >>
    /\ entity.observations.t = "array"

\* C15: every body held by the backing-store client or by the bounded cache,
\* and every body a getEntity returns, has the minimal entity shape; a fetch
\* whose loaded body lacks it fails with the load error, and a storeEntity
\* of an entity that lacks it fails and stores nothing.
C15_ShapeGuard ==
    /\ \A f \in DOMAIN entityCache : MinimalShape(entityCache[f])
    /\ \A i \in 1..Len(cache) : MinimalShape(cache[i].value)
    /\ \A p \in Procs :
          /\ Ended(p) /\ req[p].error = "" => MinimalShape(req[p].fullEntity)
          /\ IsGet(p) /\ req[p].loaded /\ req[p].pc # "validating"
                /\ ~MinimalShape(req[p].fullEntity)
                => req[p].pc = "done" /\ req[p].error = FailedToLoad
          /\ req[p].op = "store" /\ req[p].pc # "storeValidating"
                /\ ~MinimalShape(req[p].entityData)
                => /\ req[p].pc = "done" /\ ~req[p].bodyMutated
                   /\ req[p].error \in {FailedToStore, L1NotConnectedStore}

\* a storeEntity of an entity without a name was refused on a connected client
C15_Witness ==
    \E p \in Procs :
        /\ req[p].op = "store" /\ req[p].pc = "done"
        /\ req[p].entityData = NamelessEntity
        /\ req[p].error = FailedToStore /\ req[p].failed = 1 /\ ~req[p].bodyMutated

\* the name part of a file reference: between the base path and `.json`
NamePart(fileReference) ==
    SubSeq(fileReference, Len(BasePath) + 2, Len(fileReference) - Len(DotJson))

\* normalized: only a-z, 0-9 and underscore, no two underscores in a row, none
\* at either end
IsNormal(s) ==
    /\ \A i \in 1..Len(s) :
          \/ \E k \in 1..Len(LowerCase) : LowerCase[k] = s[i]
          \/ s[i] \in Digits
          \/ s[i] = "_"
    /\ \A i \in 1..(Len(s) - 1) : ~(s[i] = "_" /\ s[i + 1] = "_")
    /\ s # << >> => s[1] # "_" /\ s[Len(s)] # "_"

\* C16: the file reference storeEntity computes is the same for a name in
\* every state of the store; its name part is normalized, and normalizing
\* the name part again returns it unchanged.
C16_FileReference ==
    \A p \in Procs :
        req[p].op = "store" /\ req[p].fileReference # << >> =>
            LET part == NamePart(req[p].fileReference)
            IN  /\ req[p].fileReference = BasePath \o <<"/">> \o part \o DotJson
                /\ req[p].fileReference = generateFileReference(req[p].entityName)
                /\ IsNormal(part)
                /\ NamePart(generateFileReference(part)) = part

\* a name of a capital between an unsafe character and an underscore was
\* stored, on the core in service
C16_Witness ==
    \E p \in Procs :
        /\ req[p].op = "store" /\ req[p].pc = "done" /\ req[p].error = ""
        /\ req[p].entityName = <<"!", "A", "_">>
        /\ NamePart(req[p].fileReference) = <<"a">>
        /\ Len(cache) = 1

\* the reference the last createLightweightReference created
PutReference == lightweightReferences[lastPut.entityName]

\* the observations of the entity handed to the last createLightweightReference
PutObservations == lastPut.fullEntity.observations.a

\* C17: the priority of a reference created by createLightweightReference is
\* critical for the entityType "System_Bootstrap_Protocol"; otherwise high
\* for more than 10 observations, medium for 6 to 10, low for 0 to 5.
C17_Priority ==
    lastPut.outcome = "created" =>
        PutReference.priority =
            IF lastPut.fullEntity.entityType = JsString(BootstrapType) THEN "critical"
            ELSE IF Len(PutObservations) > 10 THEN "high"
            ELSE IF Len(PutObservations) \in 6..10 THEN "medium"
            ELSE "low"

\* a reference was created for an entity of 10 observations, on the core in
\* service: its priority is medium
C17_Witness ==
    /\ lastPut.outcome = "created"
    /\ lastPut.fullEntity.entityType = JsString(FactType)
    /\ Len(PutObservations) = 10
    /\ PutReference.priority = "medium"
    /\ Len(cache) = 1

\* C18: the evidence quality of a reference created by
\* createLightweightReference is T1 when any observation of the entity
\* contains "T1", whatever the other observations contain, and T3 when no
\* observation contains a tier marker.
C18_EvidenceQuality ==
    lastPut.outcome = "created" =>
        /\ (\E i \in 1..Len(PutObservations) : Includes(PutObservations[i].s, TierT1))
              => PutReference.evidenceQuality = "T1"
        /\ (\A i \in 1..Len(PutObservations) :
                /\ ~Includes(PutObservations[i].s, TierT1)
                /\ ~Includes(PutObservations[i].s, TierT2)
                /\ ~Includes(PutObservations[i].s, TierT3))
              => PutReference.evidenceQuality = "T3"

\* the step in which slot p calls getLightweightReference(n) on an
\* initialized catalog
CatalogGet(p, n) ==
    /\ Free(p)
    /\ req'[p].op = "get" /\ req'[p].pc = "resolved" /\ req'[p].entityName = n

\* C19: getLightweightReference(n) on an initialized catalog: a reference of
\* n gets its accessCount raised by one and its lastAccessed set to now and
\* is returned; no other reference changes, none is created, and the
\* backing-store client is not touched; without a reference of n the result
\* is null.
C19_CatalogGet ==
    [][\A p \in Procs, n \in Names :
          CatalogGet(p, n) =>
              /\ DOMAIN lightweightReferences' = DOMAIN lightweightReferences
              /\ \A m \in DOMAIN lightweightReferences :
                    m # n => lightweightReferences'[m] = lightweightReferences[m]
              /\ n \in DOMAIN lightweightReferences =>
                    /\ lightweightReferences'[n] =
                          [lightweightReferences[n] EXCEPT !.accessCount = @ + 1,
                                                           !.lastAccessed = now']
                    /\ req'[p].refFound
                    /\ req'[p].fileReference = lightweightReferences[n].fileReference
              /\ n \notin DOMAIN lightweightReferences => ~req'[p].refFound
              /\ l1vars' = l1vars]_vars

\* a reference was just found and touched, beside another reference
C19_Witness ==
    \E p \in Procs :
        /\ IsGet(p) /\ req[p].pc = "resolved" /\ req[p].refFound
        /\ lightweightReferences[req[p].entityName].accessCount = 1
        /\ lightweightReferences[req[p].entityName].lastAccessed = now
        /\ Cardinality(DOMAIN lightweightReferences) = 2

\* C20: no step removes a reference: a name that has a reference has one in
\* every later state.
C20_ReferencesKept ==
    [][DOMAIN lightweightReferences \subseteq DOMAIN lightweightReferences']_vars

\* initialize runs again on a catalog that holds a reference created by a
\* put, and the reference is still there
C20_Witness ==
    /\ initPc = "l0Loaded" /\ l0Initialized
    /\ lastPut.outcome = "created"
    /\ lastPut.entityName # SampleName
    /\ lastPut.entityName \in DOMAIN lightweightReferences

\* the step in which the getEntity of slot p finds its key in the bounded cache
HitStep(p) ==
    /\ IsGet(p) /\ req[p].pc = "resolved"
    /\ req'[p].op = "get" /\ req'[p].pc = "done" /\ req'[p].cachedAtProbe

\* C21: a getEntity asks the backing-store client for a body only after its
\* reference was resolved and its cache probe missed; it fills the cache only
\* after the fetch succeeded, and then ends; and on a hit it ends having
\* counted one cache hit, with the client's request counters and the set of
\* cached keys as they were.
C21_RequestOrder ==
    /\ [](\A p \in Procs :
            /\ IsGet(p) /\ req[p].requests > 0
                  => req[p].refFound /\ req[p].probed /\ ~req[p].cachedAtProbe
            /\ IsGet(p) /\ req[p].pc \in {"loading", "validating", "fetched"}
                  => req[p].requests = 1 /\ req[p].misses = 0 /\ ~req[p].cacheMutated
            /\ IsGet(p) /\ req[p].misses > 0
                  => /\ req[p].pc = "done" /\ req[p].error = ""
                     /\ req[p].requests = 1 /\ req[p].failed = 0 /\ req[p].misses = 1
                     /\ req[p].hits = 0
            /\ IsGet(p) /\ req[p].cacheMutated /\ ~req[p].cachedAtProbe
                  => req[p].misses = 1
            /\ Ended(p) /\ req[p].cachedAtProbe
                  => /\ req[p].hits = 1 /\ req[p].misses = 0 /\ req[p].error = ""
                     /\ req[p].requests = 0 /\ req[p].failed = 0 /\ ~req[p].loaded)
    /\ [][\A p \in Procs :
            HitStep(p) => /\ healthMonitor'.cacheHits = healthMonitor.cacheHits + 1
                          /\ connectionMetrics' = connectionMetrics
                          /\ entityCache' = entityCache
                          /\ CacheKeys(cache') = CacheKeys(cache)]_vars

\* a getEntity ended on a hit of an entry that an earlier getEntity had filled
\* in after a fetch
C21_Witness ==
    \E p \in Procs :
        /\ Ended(p) /\ req[p].cachedAtProbe /\ req[p].hits = 1
        /\ req[p].fullEntity = CacheValue(cache, CacheKey(req[p].entityName))
        /\ healthMonitor.cacheMisses = 1 /\ connectionMetrics.successfulRequests = 1

\* C22: in a getEntity, resolving the reference, recording the access and
\* probing the bounded cache are one uninterrupted step: once the reference
\* of a call is resolved, the next step is that call's cache probe, and no
\* step of another call comes between the two.
C22_ResolveAndProbeAtomic ==
    [][\A p \in Procs :
          IsGet(p) /\ req[p].pc = "resolved" => req'[p].pc # "resolved"]_vars

\* no operation is in flight: every call has settled and no continuation waits
Quiescent ==
    /\ \A p \in Procs : Free(p)
    /\ initPc \in {"idle", "failed"}
    /\ microtasks = << >>

\* the storeEntity in slot p has succeeded, and the body it stored is the one
\* last stored at its file reference
LastStored(p) ==
    /\ req[p].op = "store" /\ req[p].pc = "done" /\ req[p].error = ""
    /\ req[p].fileReference \in DOMAIN entityCache
    /\ entityCache[req[p].fileReference] = req[p].entityData

\* C23: cache consistency: with no operation in flight, the value the bounded
\* cache holds for a name is the body last stored with success under that
\* name.
C23_CacheConsistency ==
    Quiescent =>
        \A p \in Procs :
            LastStored(p) /\ CacheHas(cache, CacheKey(req[p].entityName))
                => CacheValue(cache, CacheKey(req[p].entityName)) = req[p].entityData

\* the distinct entity bodies held in memory: by the bounded cache and by the
\* client's entityCache
ResidentBodies ==
    {cache[i].value : i \in 1..Len(cache)} \cup {entityCache[f] : f \in DOMAIN entityCache}

\* C24: no more distinct entity bodies are held in memory than the capacity
\* of the bounded cache, the bodies held by the backing-store client counted
\* with those of the bounded cache.
C24_ResidentBodiesBounded == Cardinality(ResidentBodies) <= CacheCapacity

\* The getEntity of slot p and the storeEntity of slot q were in flight at the
\* same time on one file reference and have both succeeded, the getEntity
\* having loaded its body from the repository.  (Two slots hold settled calls
\* only if the later call started before the earlier one settled.)
FetchedWhileStoring(p, q) ==
    /\ Ended(p) /\ req[p].loaded /\ req[p].error = ""
    /\ req[q].op = "store" /\ req[q].pc = "done" /\ req[q].error = ""
    /\ req[q].fileReference = req[p].fileReference

\* C25: when a fetch and a persist on one file reference were in flight at
\* the same time and both have completed, the body the client holds at the
\* file reference is the persisted body, not the body the fetch loaded.  (The
\* fetch tested the client's cache before the persist set it, or it would not
\* have loaded; where the client ends with the loaded body, the fetch set it
\* after the persist did.  The bounded cache is filled from what the fetch
\* returns.)
C25_NoInterleavedMutation ==
    \A p, q \in Procs :
        FetchedWhileStoring(p, q) =>
            entityCache[req[p].fileReference] = req[q].entityData

\* C26: the client's request accounting balances: with no call in flight,
\* totalRequests is successfulRequests plus failedRequests; and a call the
\* client rejected because it is not connected has changed no counter.
C26_AccountingBalances ==
    /\ Quiescent =>
          connectionMetrics.totalRequests =
              connectionMetrics.successfulRequests + connectionMetrics.failedRequests
    /\ \A p \in Procs :
          req[p].pc = "done" /\ req[p].error \in {L1NotConnected, L1NotConnectedStore}
              => req[p].requests = 0 /\ req[p].failed = 0

====
